---- MODULE Spec2Model ----
(***************************************************************************)
(* A model of the devrun interpreter (src/src/interpreter.rs): the three   *)
(* tables of an Interpreter, the statement evaluator and the two function  *)
(* resolution entry points.  Text is modelled as a sequence of one-        *)
(* character strings so that replace, split and join are computed the way  *)
(* the code computes them.                                                 *)
(***************************************************************************)
EXTENDS Integers, Sequences, FiniteSets, TLC

VARIABLES variables, functions, simple_functions, call, pre, result, executed, stderr

vars == <<variables, functions, simple_functions, call, pre, result, executed, stderr>>

\* --------------------------------------------------------------- bounds
\* Longest program handed to execute.
MaxProgLen == 2
\* Longest argument list handed to a resolution entry point.
MaxArgs == 2
\* Nested full-function calls followed before the call stack is taken to
\* be exhausted (the universe below has no finite chain deeper than 1).
MaxDepth == 2
\* The executor invocation (1..MaxExec) of one call that may end abnormally.
MaxExec == 2

\* Most tokens a template handed to substitute_args is made of.
MaxTokens == 3
\* Longest argument list handed to substitute_args on its own.
MaxSubstArgs == 2

\* Longest source text handed to preprocess_escaped_newlines.
MaxSourceLen == 6

\* Most items of a parsed source.
MaxItems == 2
\* Most arguments of a parenthesized call in the source.
MaxCallArgs == 2
\* Most sub-tokens of a command or template in the source.
MaxParts == 3

\* Deepest current directory below the filesystem root.
MaxDirDepth == 2

\* ----------------------------------------------------------------- text
Digit == <<"0", "1", "2", "3", "4", "5", "6", "7", "8", "9">>

RECURSIVE Decimal(_)
\* format!("{}", n) for n >= 0.
Decimal(n) ==
    IF n < 10 THEN <<Digit[n + 1]>>
    ELSE Decimal(n \div 10) \o <<Digit[(n % 10) + 1]>>

RECURSIVE Replace(_, _, _)
\* str::replace(from, to): every non-overlapping match, left to right.
Replace(s, from, to) ==
    IF Len(s) < Len(from) THEN s
    ELSE IF SubSeq(s, 1, Len(from)) = from
         THEN to \o Replace(SubSeq(s, Len(from) + 1, Len(s)), from, to)
         ELSE <<Head(s)>> \o Replace(Tail(s), from, to)

RECURSIVE Contains(_, _)
\* str::contains(pat).
Contains(s, pat) ==
    IF Len(s) < Len(pat) THEN FALSE
    ELSE SubSeq(s, 1, Len(pat)) = pat \/ Contains(Tail(s), pat)

RECURSIVE Join_reversed(_, _)
\* Mutant: the parts are joined last to first.
Join_reversed(parts, sep) ==
    IF parts = << >> THEN << >>
    ELSE IF Len(parts) = 1 THEN parts[1]
    ELSE Join_reversed(Tail(parts), sep) \o sep \o parts[1]

RECURSIVE Join(_, _)
\* [String]::join(sep).
Join(parts, sep) ==
    IF parts = << >> THEN << >>
    ELSE IF Len(parts) = 1 THEN parts[1]
    ELSE parts[1] \o sep \o Join(Tail(parts), sep)

IsWhitespace(c) == c \in {" ", "\t"}

RECURSIVE SplitFrom(_, _)
\* The tokens of s after the token `cur` being read.
SplitFrom(s, cur) ==
    IF s = << >> THEN (IF cur = << >> THEN << >> ELSE <<cur>>)
    ELSE IF IsWhitespace(Head(s))
         THEN (IF cur = << >> THEN << >> ELSE <<cur>>) \o SplitFrom(Tail(s), << >>)
         ELSE SplitFrom(Tail(s), Append(cur, Head(s)))

\* str::split_whitespace().collect().
SplitWhitespace(s) == SplitFrom(s, << >>)

\* ------------------------------------------------------------ hash maps
EmptyMap == << >>

\* Mutant: a key already bound keeps its first value.
Insert_keep_first(m, k, v) ==
    [x \in (DOMAIN m) \cup {k} |-> IF x \in DOMAIN m THEN m[x] ELSE v]

\* Mutant: binding a key drops every other key.
Insert_clearing(m, k, v) == [x \in {k} |-> v]

\* HashMap::insert: the key is bound to the new value, other keys kept.
Insert(m, k, v) == [x \in (DOMAIN m) \cup {k} |-> IF x = k THEN v ELSE m[x]]

\* HashMap::get(k).is_some().
Has(m, k) == k \in DOMAIN m

\* ------------------------------------------------------------- universe
nD == <<"d">>
nDS == <<"d", "_", "s">>
nDSS == <<"d", "_", "s", "_", "s">>
nDcS == <<"d", ":", "s">>
nDScS == <<"d", "_", "s", ":", "s">>
nDcScS == <<"d", ":", "s", ":", "s">>
nNope == <<"n">>
nDspS == <<"d", " ", "s">>
nDtabS == <<"d", "\t", "s">>
nDtabStabS == <<"d", "\t", "s", "\t", "s">>

aS == <<"s">>
aX == <<"x">>
aRef == <<"$", "2">>

T1 == <<"p", "$", "1">>
T2 == <<"q", "$", "@">>

cE == <<"e", "$", "1">>
cG == <<"g", "$", "v">>

Assignment(n, e) == [type |-> "Assignment", name |-> n, value |-> e]
FunctionDef(n, b) == [type |-> "FunctionDef", name |-> n, body |-> b]
SimpleFunctionDef(n, t) == [type |-> "SimpleFunctionDef", name |-> n, command_template |-> t]
FunctionCall(n, a) == [type |-> "FunctionCall", name |-> n, args |-> a]
Command(c) == [type |-> "Command", command |-> c]

ExprString(s) == [kind |-> "String", s |-> s]
ExprIdentifier(n) == [kind |-> "Identifier", name |-> n]

\* A body that runs two commands around an assignment.
BodySeq == <<Command(cE), Assignment(<<"v">>, ExprString(<<"1">>)), Command(cG)>>
\* A body that calls its own function.
BodyRec == <<Command(cE), FunctionCall(nDS, << >>)>>

ArgVals == {aS, aX, aRef}

ArgLists == UNION {[1..n -> ArgVals] : n \in 0..MaxArgs}

Stmts ==
    { Assignment(<<"v">>, ExprString(<<"1">>)),
      Assignment(<<"v">>, ExprIdentifier(<<"u">>)),
      SimpleFunctionDef(nDS, T1),
      SimpleFunctionDef(nDS, T2),
      SimpleFunctionDef(nDcS, T1),
      SimpleFunctionDef(nDScS, T2),
      SimpleFunctionDef(nDcScS, T2),
      FunctionDef(nDS, BodySeq),
      FunctionDef(nDS, BodyRec),
      FunctionCall(nDS, <<aX>>),
      FunctionCall(nNope, << >>),
      Command(cE),
      Command(cG) }

Programs == UNION {[1..n -> Stmts] : n \in 0..MaxProgLen}

\* Names given to call_function_without_parens.
CliNames == {nD, nDS, nDSS, nNope}

\* Names given to call_function.
CallNames == {nDS, nDspS, nDtabS, nDtabStabS, nNope}

\* What the executor does with its k-th command of one call: every
\* invocation exits zero, except invocation `at`, which ends as `kind`.
ZeroOracle == [at |-> 0, kind |-> "zero"]

Oracles ==
    {ZeroOracle}
        \cup [at : 1..MaxExec, kind : {"nonzero", "spawn_error"}]

\* ---------------------------------------------------------- interpreter
\* Result<(), Box<dyn Error>> of a call; Abort is a call that never
\* returns because the call stack is exhausted.
Ok == [kind |-> "Ok", msg |-> << >>]
Err(m) == [kind |-> "Err", msg |-> m]
Abort == [kind |-> "Abort", msg |-> << >>]

SpawnError == Err(<<"spawn">>)
NotFound(name) == Err(<<"Function '", name, "' not found">>)
NotDefined(name) == <<"Error: Function '", name, "' not defined">>
CommandFailed == <<"Command failed with status">>

\* Interpreter::new().
new == [variables |-> EmptyMap, functions |-> EmptyMap, simple_functions |-> EmptyMap]

\* The interpreter at the start of a call: its tables, nothing handed to
\* the executor yet, nothing written to standard error.
Start(tables) ==
    [variables |-> tables.variables, functions |-> tables.functions,
     simple_functions |-> tables.simple_functions,
     executed |-> << >>, stderr |-> << >>, result |-> Ok]

Tables(st) ==
    [variables |-> st.variables, functions |-> st.functions,
     simple_functions |-> st.simple_functions]

\* The outcome of the k-th executor invocation of a call.
OutcomeAt(orc, k) == IF k = orc.at THEN orc.kind ELSE "zero"

\* Mutant: a command that exits non-zero is returned as an error.
execute_command_strict(st, command, orc) ==
    LET outcome == OutcomeAt(orc, Len(st.executed) + 1)
    IN [st EXCEPT
          !.executed = Append(@, [command |-> command, outcome |-> outcome]),
          !.stderr = IF outcome = "nonzero" THEN Append(@, CommandFailed) ELSE @,
          !.result = IF outcome = "zero" THEN Ok ELSE SpawnError]

execute_command(st, command, orc) ==
    LET outcome == OutcomeAt(orc, Len(st.executed) + 1)
    IN [st EXCEPT
          !.executed = Append(@, [command |-> command, outcome |-> outcome]),
          !.stderr = IF outcome = "nonzero" THEN Append(@, CommandFailed) ELSE @,
          !.result = IF outcome = "spawn_error" THEN SpawnError ELSE Ok]

evaluate_expression(st, expr) ==
    CASE expr.kind = "String" -> expr.s
      [] expr.kind = "Number" ->
            IF expr.n < 0 THEN <<"-">> \o Decimal(0 - expr.n) ELSE Decimal(expr.n)
      [] expr.kind = "Identifier" ->
            IF Has(st.variables, expr.name) THEN st.variables[expr.name] ELSE << >>

\* `for (i, arg) in args.iter().enumerate()`: $1, $2, ... replaced one
\* after the other, each over the whole text the one before left.
substitute_positional(template, args) ==
    LET positional[i \in 0..Len(args)] ==
            IF i = 0 THEN template
            ELSE Replace(positional[i - 1], <<"$">> \o Decimal(i), args[i])
    IN positional[Len(args)]

substitute_args(template, args) ==
    LET replaced == substitute_positional(template, args)
    IN IF Contains(replaced, <<"$", "@">>)
       THEN Replace(replaced, <<"$", "@">>, Join(args, <<" ">>))
       ELSE replaced

RECURSIVE execute_statement(_, _, _, _)
RECURSIVE execute_statements(_, _, _, _)

\* `for stmt in ... { self.execute_statement(stmt)?; }`: the statements in
\* order, the first error returned at once.
execute_statements(st, stmts, orc, fuel) ==
    IF stmts = << >> THEN st
    ELSE LET s1 == execute_statement(st, Head(stmts), orc, fuel)
         IN IF s1.result.kind # "Ok" THEN s1
            ELSE execute_statements(s1, Tail(stmts), orc, fuel)

execute_statement(st, stmt, orc, fuel) ==
    CASE stmt.type = "Assignment" ->
            [st EXCEPT !.variables = Insert(@, stmt.name, evaluate_expression(st, stmt.value))]
      [] stmt.type = "FunctionDef" ->
            [st EXCEPT !.functions = Insert(@, stmt.name, stmt.body)]
      [] stmt.type = "SimpleFunctionDef" ->
            [st EXCEPT !.simple_functions = Insert(@, stmt.name, stmt.command_template)]
      [] stmt.type = "FunctionCall" ->
            IF Has(st.simple_functions, stmt.name)
            THEN execute_command(st, st.simple_functions[stmt.name], orc)
            ELSE IF Has(st.functions, stmt.name)
            THEN IF fuel = 0 THEN [st EXCEPT !.result = Abort]
                 ELSE execute_statements(st, st.functions[stmt.name], orc, fuel - 1)
            ELSE [st EXCEPT !.stderr = Append(@, NotDefined(stmt.name))]
      [] stmt.type = "Command" ->
            execute_command(st, stmt.command, orc)

\* Mutant: the statements after a failing one still run; the first error
\* is returned at the end.
execute_keep_going(st, program, orc) ==
    LET run[i \in 0..Len(program)] ==
            IF i = 0 THEN st
            ELSE LET s1 == execute_statement(run[i - 1], program[i], orc, MaxDepth)
                 IN IF run[i - 1].result.kind # "Ok"
                    THEN [s1 EXCEPT !.result = run[i - 1].result]
                    ELSE s1
    IN run[Len(program)]

\* Mutant: a failing program leaves the tables as they were before it.
execute_with_rollback(st, program, orc) ==
    LET end == execute_statements(st, program, orc, MaxDepth)
    IN IF end.result.kind = "Err"
       THEN [end EXCEPT !.variables = st.variables, !.functions = st.functions,
                        !.simple_functions = st.simple_functions]
       ELSE end

execute(st, program, orc) == execute_statements(st, program, orc, MaxDepth)

\* format!("{}:{}", function_name, args[0]).
nested_name(function_name, args) == function_name \o <<":">> \o args[1]

\* Mutant: the promoted subcommand stays in the argument list.
remaining_args_all(args) == args

\* &args[1..], the arguments left after the promoted subcommand.
remaining_args(args) == Tail(args)

RECURSIVE ReplaceFirst(_, _, _)
ReplaceFirst(s, from, to) ==
    IF Len(s) < Len(from) THEN s
    ELSE IF SubSeq(s, 1, Len(from)) = from
         THEN to \o SubSeq(s, Len(from) + 1, Len(s))
         ELSE <<Head(s)>> \o ReplaceFirst(Tail(s), from, to)

\* Mutant: only the first underscore becomes a colon.
with_colons_first_only(function_name) == ReplaceFirst(function_name, <<"_">>, <<":">>)

\* function_name.replace("_", ":").
with_colons(function_name) == Replace(function_name, <<"_">>, <<":">>)

\* Mutant: an unresolved name is a silent no-op.
\* Mutant: a name that is not found empties the tables.
not_found_clearing(st, function_name) ==
    [st EXCEPT !.result = NotFound(function_name), !.variables = EmptyMap,
               !.functions = EmptyMap, !.simple_functions = EmptyMap]

not_found_silent(st, function_name) == st

\* Err(format!("Function '{}' not found", function_name).into()).
not_found(st, function_name) == [st EXCEPT !.result = NotFound(function_name)]

\* Mutant: the body goes on after a failing statement and the call
\* returns the last statement's result.
run_body_keep_going(st, body, orc) ==
    LET run[i \in 0..Len(body)] ==
            IF i = 0 THEN st
            ELSE execute_statement(run[i - 1], body[i], orc, MaxDepth)
    IN run[Len(body)]

\* `for stmt in body { self.execute_statement(stmt)?; } return Ok(())`.
run_body(st, body, orc) == execute_statements(st, body, orc, MaxDepth)

\* Mutant: subcommand promotion is tried before the direct match.
call_function_without_parens_promotion_first(st, function_name, args, orc) ==
    IF args # << >> /\ Has(st.simple_functions, nested_name(function_name, args))
    THEN execute_command(st,
            substitute_args(st.simple_functions[nested_name(function_name, args)],
                            remaining_args(args)), orc)
    ELSE IF Has(st.simple_functions, function_name)
    THEN execute_command(st, substitute_args(st.simple_functions[function_name], args), orc)
    ELSE IF with_colons(function_name) # function_name
            /\ Has(st.simple_functions, with_colons(function_name))
    THEN execute_command(st,
            substitute_args(st.simple_functions[with_colons(function_name)], args), orc)
    ELSE IF Has(st.functions, function_name)
    THEN run_body(st, st.functions[function_name], orc)
    ELSE not_found(st, function_name)

call_function_without_parens(st, function_name, args, orc) ==
    IF Has(st.simple_functions, function_name)
    THEN execute_command(st, substitute_args(st.simple_functions[function_name], args), orc)
    ELSE IF args # << >> /\ Has(st.simple_functions, nested_name(function_name, args))
    THEN execute_command(st,
            substitute_args(st.simple_functions[nested_name(function_name, args)],
                            remaining_args(args)), orc)
    ELSE IF with_colons(function_name) # function_name
            /\ Has(st.simple_functions, with_colons(function_name))
    THEN execute_command(st,
            substitute_args(st.simple_functions[with_colons(function_name)], args), orc)
    ELSE IF Has(st.functions, function_name)
    THEN run_body(st, st.functions[function_name], orc)
    ELSE not_found(st, function_name)

\* function_name.replace(" ", ":").
spaces_to_colons(function_name) == Replace(function_name, <<" ">>, <<":">>)

\* Mutant: only the first two tokens are joined.
nested_with_args_first_two(parts) == parts[1] \o <<":">> \o parts[2]

\* format!("{}:{}", parts[0], parts[1..].join(":")).
nested_with_args(parts) == parts[1] \o <<":">> \o Join(Tail(parts), <<":">>)

\* Mutant: the full function of the name is tried before the simple ones.
call_function_full_first(st, function_name, args, orc) ==
    LET parts == SplitWhitespace(function_name)
    IN IF Has(st.functions, function_name)
       THEN run_body(st, st.functions[function_name], orc)
       ELSE IF Has(st.simple_functions, function_name)
       THEN execute_command(st, substitute_args(st.simple_functions[function_name], args), orc)
       ELSE IF Has(st.simple_functions, spaces_to_colons(function_name))
       THEN execute_command(st,
               substitute_args(st.simple_functions[spaces_to_colons(function_name)], args), orc)
       ELSE IF Len(parts) > 1 /\ Has(st.simple_functions, nested_with_args(parts))
       THEN execute_command(st,
               substitute_args(st.simple_functions[nested_with_args(parts)], args), orc)
       ELSE not_found(st, function_name)

call_function(st, function_name, args, orc) ==
    LET parts == SplitWhitespace(function_name)
    IN IF Has(st.simple_functions, function_name)
       THEN execute_command(st, substitute_args(st.simple_functions[function_name], args), orc)
       ELSE IF Has(st.simple_functions, spaces_to_colons(function_name))
       THEN execute_command(st,
               substitute_args(st.simple_functions[spaces_to_colons(function_name)], args), orc)
       ELSE IF Len(parts) > 1 /\ Has(st.simple_functions, nested_with_args(parts))
       THEN execute_command(st,
               substitute_args(st.simple_functions[nested_with_args(parts)], args), orc)
       ELSE IF Has(st.functions, function_name)
       THEN run_body(st, st.functions[function_name], orc)
       ELSE not_found(st, function_name)

\* ----------------------------------------------------------- the machine
Current ==
    [variables |-> variables, functions |-> functions, simple_functions |-> simple_functions]

\* No call in progress: the driver is between two calls.
NoCall == [op |-> "idle", name |-> << >>, args |-> << >>, program |-> << >>]

Init ==
    /\ variables = new.variables
    /\ functions = new.functions
    /\ simple_functions = new.simple_functions
    /\ call = NoCall
    /\ pre = new
    /\ result = Ok
    /\ executed = << >>
    /\ stderr = << >>

\* The interpreter after a call that ended in `st`.
Finish(st, c) ==
    /\ variables' = st.variables
    /\ functions' = st.functions
    /\ simple_functions' = st.simple_functions
    /\ result' = st.result
    /\ executed' = st.executed
    /\ stderr' = st.stderr
    /\ pre' = Current
    /\ call' = c

\* The driver is ready to make a call.
Idle == call.op = "idle"

Execute ==
    /\ Idle
    /\ \E program \in Programs, orc \in Oracles :
         Finish(execute(Start(Current), program, orc),
                [op |-> "execute", name |-> << >>, args |-> << >>,
                 program |-> program])

CallFunctionWithoutParens ==
    /\ Idle
    /\ \E name \in CliNames, args \in ArgLists, orc \in Oracles :
         Finish(call_function_without_parens(Start(Current), name, args, orc),
                [op |-> "call_function_without_parens", name |-> name, args |-> args,
                 program |-> << >>])

CallFunction ==
    /\ Idle
    /\ \E name \in CallNames, args \in ArgLists, orc \in Oracles :
         Finish(call_function(Start(Current), name, args, orc),
                [op |-> "call_function", name |-> name, args |-> args,
                 program |-> << >>])

\* The driver takes the result of the call it made (reporting an error on
\* standard error) and drops the call's arguments; the interpreter keeps
\* its tables for the next call.  A call that overflowed the stack has
\* ended the process and never returns.
Return ==
    /\ ~Idle
    /\ result.kind # "Abort"
    /\ call' = NoCall
    /\ pre' = Current
    /\ result' = Ok
    /\ executed' = << >>
    /\ stderr' = << >>
    /\ UNCHANGED <<variables, functions, simple_functions>>

Next == Execute \/ CallFunctionWithoutParens \/ CallFunction \/ Return

Spec == Init /\ [][Next]_vars

\* ------------------------------------------------------ checked claims
\* The oracle that one call's executor log shows.
OracleOf(log) ==
    IF \E k \in 1..Len(log) : log[k].outcome # "zero"
    THEN LET k == CHOOSE j \in 1..Len(log) : log[j].outcome # "zero"
         IN [at |-> k, kind |-> log[k].outcome]
    ELSE ZeroOracle

\* The commands of an executor log, in the order they were handed over.
CommandsOf(log) == [k \in 1..Len(log) |-> log[k].command]

\* Every underscore of a name turned into a colon, character by character.
Normalized(name) == [k \in 1..Len(name) |-> IF name[k] = "_" THEN ":" ELSE name[k]]

\* The call just made went through call_function_without_parens.
ByCli == call.op = "call_function_without_parens"

\* Subcommand promotion matches the call just made.
PromotionHit ==
    /\ call.args # << >>
    /\ Has(pre.simple_functions, call.name \o <<":">> \o call.args[1])

\* Underscore normalization matches the call just made.
NormalizationHit ==
    /\ Normalized(call.name) # call.name
    /\ Has(pre.simple_functions, Normalized(call.name))

\* C1: in call_function_without_parens, when the name is a key of the
\* simple-function table, exactly one command reaches the executor, it is
\* that entry's template substituted with the full argument list, and no
\* table changes (no other strategy and no function body runs), whatever
\* else is defined.
C1_DirectMatchWins ==
    (ByCli /\ Has(pre.simple_functions, call.name)) =>
        /\ CommandsOf(executed)
              = <<substitute_args(pre.simple_functions[call.name], call.args)>>
        /\ Current = pre
        /\ result.kind # "Abort"
        /\ result # NotFound(call.name)

\* C1 witness: a direct match made while the promoted name, the normalized
\* name and a full function of the same name are all defined, and the
\* promoted entry would have given another command.
C1_Witness ==
    /\ ByCli
    /\ Has(pre.simple_functions, call.name)
    /\ PromotionHit
    /\ NormalizationHit
    /\ Has(pre.functions, call.name)
    /\ Len(call.args) = 2
    /\ CommandsOf(executed)
          = <<substitute_args(pre.simple_functions[call.name], call.args)>>
    /\ CommandsOf(executed)
          # <<substitute_args(pre.simple_functions[call.name \o <<":">> \o call.args[1]],
                              Tail(call.args))>>

\* C2: in call_function_without_parens, when the name is not a simple
\* function, an argument is present and name:args[0] is a simple function,
\* the one command executed is that entry's template substituted with
\* args[1..], whether or not the normalized name is defined too; with no
\* argument and no other match nothing is executed.
C2_SubcommandPromotion ==
    /\ (ByCli /\ ~Has(pre.simple_functions, call.name) /\ PromotionHit) =>
          /\ CommandsOf(executed)
                = <<substitute_args(
                      pre.simple_functions[call.name \o <<":">> \o call.args[1]],
                      SubSeq(call.args, 2, Len(call.args)))>>
          /\ Current = pre
    /\ (ByCli /\ call.args = << >> /\ ~Has(pre.simple_functions, call.name)
          /\ ~NormalizationHit /\ ~Has(pre.functions, call.name)) =>
          executed = << >>

\* C2 witness: a promotion with two arguments, made while the normalized
\* name is defined as well, where the full argument list would have given
\* another command.
C2_Witness ==
    /\ ByCli
    /\ ~Has(pre.simple_functions, call.name)
    /\ PromotionHit
    /\ NormalizationHit
    /\ Len(call.args) = 2
    /\ call.args[1] # call.args[2]
    /\ CommandsOf(executed)
          = <<substitute_args(pre.simple_functions[call.name \o <<":">> \o call.args[1]],
                              <<call.args[2]>>)>>

\* C3: in call_function_without_parens, when neither the direct match nor
\* subcommand promotion matches, the name has an underscore and the name
\* with every underscore turned into a colon is a simple function, the one
\* command executed is that entry's template substituted with the full
\* argument list.
C3_UnderscoreNormalization ==
    (ByCli /\ ~Has(pre.simple_functions, call.name) /\ ~PromotionHit /\ NormalizationHit) =>
        /\ CommandsOf(executed)
              = <<substitute_args(pre.simple_functions[Normalized(call.name)], call.args)>>
        /\ Current = pre

\* C3 witness: a name with two underscores resolved by normalization, with
\* arguments.
C3_Witness ==
    /\ ByCli
    /\ call.name = nDSS
    /\ ~Has(pre.simple_functions, call.name)
    /\ ~PromotionHit
    /\ NormalizationHit
    /\ call.args # << >>
    /\ CommandsOf(executed)
          = <<substitute_args(pre.simple_functions[nDcScS], call.args)>>

\* C4: call_function_without_parens returns "Function '<name>' not found"
\* and hands nothing to the executor whenever the name matches no simple
\* function (directly, promoted or normalized) and no full function.
C4_NotFound ==
    (ByCli /\ ~Has(pre.simple_functions, call.name) /\ ~PromotionHit
        /\ ~Has(pre.simple_functions, Normalized(call.name))
        /\ ~Has(pre.functions, call.name)) =>
        /\ result = Err(<<"Function '", call.name, "' not found">>)
        /\ executed = << >>
        /\ Current = pre

\* C4 witness: a call with an argument fails as not found although other
\* functions, one of them a promotion of the same name, are defined.
C4_Witness ==
    /\ ByCli
    /\ call.name = nD
    /\ call.args = <<aX>>
    /\ Has(pre.simple_functions, nDcS)
    /\ result = Err(<<"Function '", nD, "' not found">>)
    /\ executed = << >>

\* The body of the full function the call just made names.
CalledBody == pre.functions[call.name]

\* A body with no nested call.
IsFlat(body) == \A i \in 1..Len(body) : body[i].type # "FunctionCall"

\* The positions of the Command statements of a body, and their texts.
CommandPositions(body) == {i \in 1..Len(body) : body[i].type = "Command"}
IsCommand(stmt) == stmt.type = "Command"
CommandTexts(body) ==
    LET cmds == SelectSeq(body, IsCommand)
    IN [k \in 1..Len(cmds) |-> cmds[k].command]

\* The position in the body of its k-th Command statement.
PositionOfCommand(body, k) ==
    CHOOSE i \in CommandPositions(body) :
        Cardinality({j \in CommandPositions(body) : j <= i}) = k

\* The variable table binds name as the table `before` did.
SameBinding(before, name) ==
    /\ Has(variables, name) <=> Has(before, name)
    /\ Has(before, name) => variables[name] = before[name]

\* C5: in call_function_without_parens a full function runs only when no
\* simple-function strategy matches; its body statements then run in
\* stored order with their own text (the call's arguments appear nowhere),
\* and the first failing statement ends the body and is the call's error:
\* the statements before it have taken effect, those after it have not.
C5_FullFunctionLast ==
    /\ (ByCli /\ Has(pre.functions, call.name)
          /\ (Has(pre.simple_functions, call.name) \/ PromotionHit \/ NormalizationHit)) =>
          /\ Len(executed) = 1
          /\ \A i \in CommandPositions(CalledBody) :
                executed[1].command # CalledBody[i].command
          /\ Current = pre
    /\ (ByCli /\ Has(pre.functions, call.name)
          /\ ~Has(pre.simple_functions, call.name) /\ ~PromotionHit /\ ~NormalizationHit) =>
          /\ \A k \in 1..Len(executed) :
                \E i \in CommandPositions(CalledBody) :
                    executed[k].command = CalledBody[i].command
          /\ \A k \in 1..(Len(executed) - 1) : executed[k].outcome # "spawn_error"
          /\ result.kind = "Err" =>
                /\ result = SpawnError
                /\ executed # << >>
                /\ executed[Len(executed)].outcome = "spawn_error"
          /\ IsFlat(CalledBody) =>
                /\ Len(executed) <= Len(CommandTexts(CalledBody))
                /\ CommandsOf(executed)
                      = SubSeq(CommandTexts(CalledBody), 1, Len(executed))
                /\ result.kind = "Ok" => Len(executed) = Len(CommandTexts(CalledBody))
                /\ result.kind \in {"Ok", "Err"}
                /\ \A i \in 1..Len(CalledBody) :
                      CalledBody[i].type = "Assignment" =>
                          IF result.kind = "Ok"
                                \/ i < PositionOfCommand(CalledBody, Len(executed))
                          THEN /\ Has(variables, CalledBody[i].name)
                               /\ variables[CalledBody[i].name] = CalledBody[i].value.s
                          ELSE SameBinding(pre.variables, CalledBody[i].name)

\* C5 witness: a full function called with an argument whose first body
\* statement fails: its text reached the executor unchanged, and the
\* assignment and the command after it did not run.
C5_Witness ==
    /\ ByCli
    /\ call.args = <<aS>>
    /\ Has(pre.functions, call.name)
    /\ CalledBody = BodySeq
    /\ ~Has(pre.variables, <<"v">>)
    /\ Has(pre.simple_functions, nDcScS)
    /\ result = SpawnError
    /\ executed = <<[command |-> cE, outcome |-> "spawn_error"]>>
    /\ ~Has(variables, <<"v">>)

\* The call just made went through call_function.
ByCall == call.op = "call_function"

\* Every space of a name turned into a colon, character by character.
SpaceColon(name) == [k \in 1..Len(name) |-> IF name[k] = " " THEN ":" ELSE name[k]]

\* The first two tokens joined by a colon; all tokens joined by colons.
FirstTwoJoined(parts) == parts[1] \o <<":">> \o parts[2]
AllJoined(parts) == Join(parts, <<":">>)

\* The one command executed is the template of key k with the call's
\* arguments, and no table changed.
RanSimple(k) ==
    /\ CommandsOf(executed) = <<substitute_args(pre.simple_functions[k], call.args)>>
    /\ Current = pre

\* The resolution order of call_function, with `third` the name its third
\* strategy forms from the tokens of the name.
ResolutionOrder(third(_)) ==
    ByCall =>
        LET parts == SplitWhitespace(call.name)
        IN IF Has(pre.simple_functions, call.name) THEN RanSimple(call.name)
           ELSE IF Has(pre.simple_functions, SpaceColon(call.name))
           THEN RanSimple(SpaceColon(call.name))
           ELSE IF Len(parts) > 1 /\ Has(pre.simple_functions, third(parts))
           THEN RanSimple(third(parts))
           ELSE IF Has(pre.functions, call.name)
           THEN /\ executed # << >>
                /\ executed[1].command = pre.functions[call.name][1].command
                /\ result # NotFound(call.name)
           ELSE /\ result = Err(<<"Function '", call.name, "' not found">>)
                /\ executed = << >>
                /\ Current = pre

\* C6 as claimed: the third strategy of call_function joins the first two
\* whitespace-separated tokens of the name.
C6_FirstTwoTokens == ResolutionOrder(FirstTwoJoined)

\* C6 amended: call_function tries, stopping at the first hit, the name,
\* the name with every space turned into a colon, all whitespace-separated
\* tokens of the name joined by colons (when there are at least two), and
\* the full function of that name; a simple hit executes its template with
\* the explicit arguments, and no hit fails with "Function '<name>' not
\* found".
C6_AllTokens == ResolutionOrder(AllJoined)

\* C6 witness: a name of three tab-separated tokens resolved by the third
\* strategy to the entry of all three tokens, while the entry of the first
\* two tokens exists and would have given another command.
C6_Witness ==
    /\ ByCall
    /\ call.name = nDtabStabS
    /\ Has(pre.simple_functions, nDcS)
    /\ Has(pre.simple_functions, nDcScS)
    /\ call.args # << >>
    /\ CommandsOf(executed) = <<substitute_args(pre.simple_functions[nDcScS], call.args)>>
    /\ CommandsOf(executed) # <<substitute_args(pre.simple_functions[nDcS], call.args)>>

\* The call just made went through execute.
ByExecute == call.op = "execute"

\* C7 as claimed: a FunctionCall statement naming a simple function hands
\* the executor the template with $1..$N replaced by the call-site
\* arguments.
C7_CallSiteArguments ==
    (ByExecute /\ Len(call.program) = 1
        /\ call.program[1].type = "FunctionCall"
        /\ Has(pre.simple_functions, call.program[1].name)) =>
        CommandsOf(executed)
            = <<substitute_args(pre.simple_functions[call.program[1].name],
                                call.program[1].args)>>

\* C8 as claimed: a FunctionCall statement whose name is no simple and no
\* full function makes execute return an error at once, no later statement
\* being executed.
C8_UnresolvedCallFails ==
    (ByExecute /\ call.program # << >>
        /\ call.program[1].type = "FunctionCall"
        /\ ~Has(pre.simple_functions, call.program[1].name)
        /\ ~Has(pre.functions, call.program[1].name)) =>
        /\ result.kind = "Err"
        /\ executed = << >>
        /\ Current = pre

\* The interpreter after statements 1..n of the program just executed, run
\* from the tables the call started with under the executor outcomes the
\* call met.
AfterPrefix(n) ==
    execute_statements(Start(pre), SubSeq(call.program, 1, n), OracleOf(executed), MaxDepth)

\* The interpreter after statement i of the program, run after the i-1
\* statements before it.
AfterStatement(i) ==
    execute_statement(AfterPrefix(i - 1), call.program[i], OracleOf(executed), MaxDepth)

\* Statement i is the one execute failed at: those before it succeeded.
FailsAt(i) ==
    /\ AfterPrefix(i - 1).result.kind = "Ok"
    /\ AfterStatement(i).result.kind = "Err"

\* C9: execute processes the statements in program order and returns the
\* first error at once: the failing executor invocation is the last one,
\* and the interpreter is left as it was when the failing statement
\* returned, no later statement having had any effect.
C9_FailFast ==
    /\ (ByExecute /\ result.kind = "Err") =>
          /\ executed # << >>
          /\ executed[Len(executed)].outcome = "spawn_error"
          /\ \A k \in 1..(Len(executed) - 1) : executed[k].outcome # "spawn_error"
          /\ \E i \in 1..Len(call.program) :
                /\ FailsAt(i)
                /\ AfterStatement(i).result = result
                /\ AfterStatement(i).executed = executed
                /\ AfterStatement(i).stderr = stderr
                /\ Tables(AfterStatement(i)) = Current
    /\ (ByExecute /\ \A i \in 1..Len(call.program) : call.program[i].type = "Command") =>
          /\ Len(executed) <= Len(call.program)
          /\ \A k \in 1..Len(executed) : executed[k].command = call.program[k].command
          /\ result.kind = "Ok" => Len(executed) = Len(call.program)

\* C9 witness: a program of two statements whose first, a command, fails,
\* and whose second, a definition, has left no trace.
C9_Witness ==
    /\ ByExecute
    /\ Len(call.program) = 2
    /\ call.program[1].type = "Command"
    /\ call.program[2].type = "SimpleFunctionDef"
    /\ ~Has(pre.simple_functions, call.program[2].name)
    /\ result = SpawnError
    /\ Len(executed) = 1
    /\ ~Has(simple_functions, call.program[2].name)

\* Statement i of the program just executed calls a full function, given
\* the tables the statements before it left.
CallsFullFunction(i) ==
    /\ call.program[i].type = "FunctionCall"
    /\ ~Has(AfterPrefix(i - 1).simple_functions, call.program[i].name)
    /\ Has(AfterPrefix(i - 1).functions, call.program[i].name)

\* Every name a table of `before` binds is bound now.
NothingRemoved(before) ==
    /\ DOMAIN before.variables \subseteq DOMAIN variables
    /\ DOMAIN before.functions \subseteq DOMAIN functions
    /\ DOMAIN before.simple_functions \subseteq DOMAIN simple_functions

LastForName(i) ==
    \A j \in (i + 1)..Len(call.program) :
        ~(call.program[j].type = call.program[i].type
            /\ call.program[j].name = call.program[i].name)

\* No statement after statement i is a function call.
NoCallAfter(i) ==
    \A j \in (i + 1)..Len(call.program) : call.program[j].type # "FunctionCall"

\* The commands a call of a simple function with this template may hand
\* over: the template itself or the template with the arguments put in.
CommandsFrom(template, args) == {template, substitute_args(template, args)}

\* C11: after a program that ran to its end, each table binds a name to
\* the value of the last Assignment / SimpleFunctionDef / FunctionDef
\* executed for it, whatever was bound before; and a call that follows a
\* redefinition in the same program runs the new template.
C11_LastWriteWins ==
    (ByExecute /\ result.kind = "Ok") =>
        /\ \A i \in 1..Len(call.program) :
              LET s == call.program[i]
              IN /\ (s.type = "SimpleFunctionDef" /\ LastForName(i)) =>
                        /\ Has(simple_functions, s.name)
                        /\ simple_functions[s.name] = s.command_template
                 /\ (s.type = "FunctionDef" /\ LastForName(i)) =>
                        /\ Has(functions, s.name)
                        /\ functions[s.name] = s.body
                 /\ (s.type = "Assignment" /\ LastForName(i) /\ NoCallAfter(i)) =>
                        /\ Has(variables, s.name)
                        /\ s.value.kind = "String" => variables[s.name] = s.value.s
                        /\ (s.value.kind = "Identifier" /\ ~Has(variables, s.value.name)) =>
                              variables[s.name] = << >>
        /\ \A i \in 1..(Len(call.program) - 1) :
              LET s == call.program[i]
                  c == call.program[Len(call.program)]
              IN (s.type = "SimpleFunctionDef" /\ LastForName(i)
                    /\ c.type = "FunctionCall" /\ c.name = s.name) =>
                    /\ executed # << >>
                    /\ executed[Len(executed)].command
                          \in CommandsFrom(s.command_template, c.args)

\* C11 witness: a program redefines a simple function that was bound to
\* another template and then calls it; the table holds the new template
\* and the command comes from it, not from the old one.
C11_Witness ==
    /\ ByExecute
    /\ result.kind = "Ok"
    /\ Len(call.program) = 2
    /\ call.program[1].type = "SimpleFunctionDef"
    /\ call.program[2].type = "FunctionCall"
    /\ call.program[2].name = call.program[1].name
    /\ Has(pre.simple_functions, call.program[1].name)
    /\ pre.simple_functions[call.program[1].name] # call.program[1].command_template
    /\ simple_functions[call.program[1].name] = call.program[1].command_template
    /\ Len(executed) = 1
    /\ executed[1].command
          \in CommandsFrom(call.program[1].command_template, call.program[2].args)
    /\ executed[1].command
          \notin CommandsFrom(pre.simple_functions[call.program[1].name], call.program[2].args)

\* The bodies a call may have run: those bound before it and those the
\* program just executed defines.
AvailableBodies ==
    {pre.functions[n] : n \in DOMAIN pre.functions}
        \cup {call.program[i].body :
                i \in {j \in 1..Len(call.program) : call.program[j].type = "FunctionDef"}}

\* Some statement of the sequence assigns the name.
Assigns(stmts, name) ==
    \E i \in 1..Len(stmts) : stmts[i].type = "Assignment" /\ stmts[i].name = name

\* C12: the tables outlive the call: between two calls they are what the
\* last call left, no call ever unbinds a name, an entry changes or
\* appears only when a definition of that name was executed, and a simple
\* function bound by an earlier call is resolved by a later call.
C12_TablesPersist ==
    /\ Idle => Current = pre
    /\ NothingRemoved(pre)
    /\ \A n \in DOMAIN simple_functions :
          (~Has(pre.simple_functions, n) \/ pre.simple_functions[n] # simple_functions[n]) =>
              /\ ByExecute
              /\ \E i \in 1..Len(call.program) :
                    /\ call.program[i].type = "SimpleFunctionDef"
                    /\ call.program[i].name = n
                    /\ call.program[i].command_template = simple_functions[n]
    /\ \A n \in DOMAIN functions :
          (~Has(pre.functions, n) \/ pre.functions[n] # functions[n]) =>
              /\ ByExecute
              /\ \E i \in 1..Len(call.program) :
                    /\ call.program[i].type = "FunctionDef"
                    /\ call.program[i].name = n
                    /\ call.program[i].body = functions[n]
    /\ \A n \in DOMAIN variables :
          (~Has(pre.variables, n) \/ pre.variables[n] # variables[n]) =>
              \/ ByExecute /\ Assigns(call.program, n)
              \/ \E body \in AvailableBodies : Assigns(body, n)
    /\ ((ByCli \/ ByCall) /\ Has(pre.simple_functions, call.name)) =>
          /\ executed # << >>
          /\ result # NotFound(call.name)

\* C12 witness: a call through call_function_without_parens runs a simple
\* function that an earlier execute left in the table, beside a variable
\* and a full function that earlier calls left too.
C12_Witness ==
    /\ ByCli
    /\ Has(pre.simple_functions, call.name)
    /\ pre.variables # EmptyMap
    /\ pre.functions # EmptyMap
    /\ Current = pre
    /\ result = Ok
    /\ Len(executed) = 1

RECURSIVE ExpandVariables(_, _, _)
\* The text with $<name> replaced by the table's value, name after name.
ExpandVariables(text, table, names) ==
    IF names = {} THEN text
    ELSE LET n == CHOOSE x \in names : TRUE
         IN ExpandVariables(Replace(text, <<"$">> \o n, table[n]), table, names \ {n})

\* C16 as claimed: a Command statement reaches the executor with every
\* $<variable> replaced by the value the variable table holds at that
\* point of the program.
C16_CommandVariables ==
    (ByExecute /\ call.program # << >> /\ call.program[1].type = "Command") =>
        /\ executed # << >>
        /\ executed[1].command
              = ExpandVariables(call.program[1].command, pre.variables, DOMAIN pre.variables)

\* Some executor invocation of the call just made exited non-zero.
SomeNonZero == \E k \in 1..Len(executed) : executed[k].outcome = "nonzero"

\* Every statement of the program just executed is a Command.
OnlyCommands ==
    \A i \in 1..Len(call.program) : call.program[i].type = "Command"

\* C17: a command that exits non-zero is logged and is no error: the call
\* it belongs to does not return an error because of it, execute runs the
\* statements after it, and a simple function called through
\* call_function_without_parens returns Ok.
C17_NonZeroIsNoError ==
    SomeNonZero =>
        /\ result.kind # "Err"
        /\ \E k \in 1..Len(stderr) : stderr[k] = CommandFailed
        /\ (ByExecute /\ OnlyCommands) =>
              /\ result = Ok
              /\ CommandsOf(executed) = [i \in 1..Len(call.program) |-> call.program[i].command]
        /\ (ByCli /\ (Has(pre.simple_functions, call.name) \/ PromotionHit \/ NormalizationHit)) =>
              result = Ok

\* C17 witness: the first of two commands of a program exits non-zero and
\* the second is executed all the same, execute returning Ok.
C17_Witness ==
    /\ ByExecute
    /\ Len(call.program) = 2
    /\ OnlyCommands
    /\ Len(executed) = 2
    /\ executed[1].outcome = "nonzero"
    /\ executed[2].outcome = "zero"
    /\ result = Ok

\* ------------------------------------------- substitute_args on its own
\* The pieces templates are made of: plain text, positional placeholders,
\* the all-arguments placeholder, a variable placeholder, a digit and a
\* lone dollar sign (so that $10 and $$1 are templates too).
TemplateTokens ==
    { <<"e">>, <<"$", "1">>, <<"$", "2">>, <<"$", "@">>, <<"$", "v">>, <<"0">>, <<"$">> }

RECURSIVE Flatten(_)
\* The texts of a sequence, one after the other.
Flatten(texts) == IF texts = << >> THEN << >> ELSE Head(texts) \o Flatten(Tail(texts))

Templates == {Flatten(ts) : ts \in UNION {[1..n -> TemplateTokens] : n \in 0..MaxTokens}}

SubstArgVals == { <<"a">>, <<"b">>, <<"$", "2">>, <<"$", "@">> }

SubstArgLists == UNION {[1..n -> SubstArgVals] : n \in 0..MaxSubstArgs}

\* The variable tables substitute_args is called under.
SubstVariables == { EmptyMap, Insert(EmptyMap, <<"v">>, <<"m">>) }

InitSubst ==
    /\ variables \in SubstVariables
    /\ functions = EmptyMap
    /\ simple_functions = EmptyMap
    /\ call \in [op : {"template"}, template : Templates, args : SubstArgLists]
    /\ pre = new
    /\ result = << >>
    /\ executed = << >>
    /\ stderr = << >>

\* self.substitute_args(template, args) returns its String.
SubstituteArgs ==
    /\ call.op = "template"
    /\ result' = substitute_args(call.template, call.args)
    /\ call' = [call EXCEPT !.op = "substitute_args"]
    /\ UNCHANGED <<variables, functions, simple_functions, pre, executed, stderr>>

NextSubst == SubstituteArgs

SpecSubst == InitSubst /\ [][NextSubst]_vars

\* substitute_args has returned.
Substituted == call.op = "substitute_args"

IsDigit(c) == c \in {"0", "1", "2", "3", "4", "5", "6", "7", "8", "9"}

\* The value of a digit, and of a run of digits.
DigitValue(c) == CHOOSE d \in 0..9 : Digit[d + 1] = c
NumberOf(digits) ==
    LET value[i \in 0..Len(digits)] ==
            IF i = 0 THEN 0 ELSE 10 * value[i - 1] + DigitValue(digits[i])
    IN value[Len(digits)]

\* The longest run of digits a text starts with.
DigitRun(s) ==
    LET n == CHOOSE k \in 0..Len(s) :
                 /\ \A i \in 1..k : IsDigit(s[i])
                 /\ k < Len(s) => ~IsDigit(s[k + 1])
    IN SubSeq(s, 1, n)

RECURSIVE PlaceholdersFilled(_, _)
\* The template read left to right, each placeholder $k (a dollar sign and
\* all the digits after it) with 1 <= k <= Len(args) replaced by args[k],
\* everything else copied.
PlaceholdersFilled(s, args) ==
    IF s = << >> THEN << >>
    ELSE IF Head(s) = "$" /\ DigitRun(Tail(s)) # << >>
    THEN LET run == DigitRun(Tail(s))
             k == NumberOf(run)
             rest == SubSeq(s, Len(run) + 2, Len(s))
         IN (IF run[1] # "0" /\ k >= 1 /\ k <= Len(args)
             THEN args[k] ELSE <<"$">> \o run) \o PlaceholdersFilled(rest, args)
    ELSE <<Head(s)>> \o PlaceholdersFilled(Tail(s), args)

\* No argument holds the character.
ArgsFreeOf(args, c) == \A i \in 1..Len(args) : \A j \in 1..Len(args[i]) : args[i][j] # c

\* C13 as claimed: substitute_args replaces every positional placeholder
\* $k, 1 <= k <= len(args), with args[k-1] and leaves every $k with
\* k > len(args) untouched (templates without $@, arguments without $).
C13_PositionalPlaceholders ==
    (Substituted /\ ~Contains(call.template, <<"$", "@">>) /\ ArgsFreeOf(call.args, "$")) =>
        result = PlaceholdersFilled(call.template, call.args)

RECURSIVE Pieces(_, _)
\* The parts of a text between its occurrences of $@, `cur` being the part
\* read so far.
Pieces(s, cur) ==
    IF s = << >> THEN <<cur>>
    ELSE IF Len(s) >= 2 /\ s[1] = "$" /\ s[2] = "@"
    THEN <<cur>> \o Pieces(SubSeq(s, 3, Len(s)), << >>)
    ELSE Pieces(Tail(s), Append(cur, Head(s)))

\* The arguments in their order with one space between neighbours.
SpaceJoined(args) ==
    LET joined[i \in 0..Len(args)] ==
            IF i = 0 THEN << >>
            ELSE IF i = 1 THEN args[1]
            ELSE joined[i - 1] \o <<" ">> \o args[i]
    IN joined[Len(args)]

\* The pieces, each with its positional placeholders replaced, with the
\* joined arguments where each $@ stood.
AllArgsFilled(template, args) ==
    LET ps == Pieces(template, << >>)
        filled[i \in 1..Len(ps)] ==
            IF i = 1 THEN substitute_positional(ps[1], args)
            ELSE filled[i - 1] \o SpaceJoined(args) \o substitute_positional(ps[i], args)
    IN filled[Len(ps)]

\* C14: substitute_args replaces every $@ of the template with the
\* arguments joined by single spaces in their order (nothing when there
\* is no argument), the text between two $@ being substituted on its own.
\* Checked for arguments holding neither $ nor @, and, for any arguments,
\* for templates the positional step leaves unchanged.
C14_AllArguments ==
    (Substituted
        /\ \/ ArgsFreeOf(call.args, "$") /\ ArgsFreeOf(call.args, "@")
           \/ substitute_positional(call.template, call.args) = call.template) =>
        result = AllArgsFilled(call.template, call.args)

\* C14 witness: a template with two $@ and a positional placeholder,
\* called with two different arguments.
C14_Witness ==
    /\ Substituted
    /\ call.args = << <<"a">>, <<"b">> >>
    /\ call.template = <<"$", "@", "$", "1", "$", "@">>
    /\ result = <<"a", " ", "b", "a", "a", " ", "b">>

\* C15 as claimed: once positional and all-args placeholders are resolved,
\* every $<name> of a variable in the variable table is replaced by the
\* variable's value.
C15_VariablePlaceholders ==
    Substituted =>
        result = ExpandVariables(substitute_args(call.template, call.args),
                                 variables, DOMAIN variables)

\* ------------------------------------------- preprocess_escaped_newlines
RECURSIVE LinesFrom(_, _)
\* The lines of s after the line `cur` being read: a line ends at a line
\* feed, and the text after the last line feed is a line unless empty.
LinesFrom(s, cur) ==
    IF s = << >> THEN (IF cur = << >> THEN << >> ELSE <<cur>>)
    ELSE IF Head(s) = "\n" THEN <<cur>> \o LinesFrom(Tail(s), << >>)
    ELSE LinesFrom(Tail(s), Append(cur, Head(s)))

\* str::lines().
Lines(s) == LinesFrom(s, << >>)

\* str::trim_end().
TrimEnd(s) ==
    LET n == CHOOSE k \in 0..Len(s) :
                 /\ k > 0 => ~IsWhitespace(s[k])
                 /\ \A i \in (k + 1)..Len(s) : IsWhitespace(s[i])
    IN SubSeq(s, 1, n)

\* trimmed.ends_with('\\').
ends_with_backslash(trimmed) == trimmed # << >> /\ trimmed[Len(trimmed)] = "\\"

\* Mutant: a continued line is buffered with nothing after it.
continue_line_no_space(buffer, trimmed) ==
    buffer \o SubSeq(trimmed, 1, Len(trimmed) - 1)

\* The buffer after a line that ends with a backslash: the line without
\* its last character, then a space.
continue_line(buffer, trimmed) ==
    buffer \o SubSeq(trimmed, 1, Len(trimmed) - 1) \o <<" ">>

\* The output and the buffer after a line that does not end with a
\* backslash.
emit_line(out, buffer, trimmed) == out \o TrimEnd(buffer \o trimmed) \o <<"\n">>

\* Mutant: what is buffered at the end of the input is dropped.
flush_never(out, buffer) == out

\* After the last line, a buffer that is not empty is one more line.
flush(out, buffer) ==
    IF buffer # << >> THEN out \o TrimEnd(buffer) \o <<"\n">> ELSE out

RECURSIVE join_lines(_, _, _)
\* The while loop over the lines and the flush after it.
join_lines(lines, out, buffer) ==
    IF lines = << >> THEN flush(out, buffer)
    ELSE LET trimmed == TrimEnd(Head(lines))
         IN IF ends_with_backslash(trimmed)
            THEN join_lines(Tail(lines), out, continue_line(buffer, trimmed))
            ELSE join_lines(Tail(lines), emit_line(out, buffer, trimmed), << >>)

preprocess_escaped_newlines(input) == join_lines(Lines(input), << >>, << >>)

SourceChars == {"a", "b", " ", "\\", "\n"}

Sources == UNION {[1..n -> SourceChars] : n \in 0..MaxSourceLen}

InitPre ==
    /\ variables = EmptyMap
    /\ functions = EmptyMap
    /\ simple_functions = EmptyMap
    /\ call \in [op : {"source"}, input : Sources]
    /\ pre = new
    /\ result = << >>
    /\ executed = << >>
    /\ stderr = << >>

\* preprocess_escaped_newlines(input) returns its String.
PreprocessEscapedNewlines ==
    /\ call.op = "source"
    /\ result' = preprocess_escaped_newlines(call.input)
    /\ call' = [call EXCEPT !.op = "preprocess_escaped_newlines"]
    /\ UNCHANGED <<variables, functions, simple_functions, pre, executed, stderr>>

NextPre == PreprocessEscapedNewlines

SpecPre == InitPre /\ [][NextPre]_vars

\* preprocess_escaped_newlines has returned.
Preprocessed == call.op = "preprocess_escaped_newlines"

\* The physical lines of the input, and what the claims say of them.
Physical == Lines(call.input)
Continued(i) == ends_with_backslash(TrimEnd(Physical[i]))
\* The text of a physical line: up to its continuation backslash if it
\* has one, else without its trailing blanks.
TextOf(i) ==
    LET t == TrimEnd(Physical[i])
    IN IF Continued(i) THEN SubSeq(t, 1, Len(t) - 1) ELSE t

\* The physical lines that end a logical line because no backslash ends
\* them, and the last physical line when it is continued.
ClosingLines == {i \in 1..Len(Physical) : ~Continued(i)}
Dangling == IF Physical # << >> /\ Continued(Len(Physical)) THEN {Len(Physical)} ELSE {}

\* The first physical line of the logical line that ends at physical line e.
FirstOf(e) ==
    1 + (CHOOSE m \in 0..(e - 1) :
            /\ m = 0 \/ m \in ClosingLines
            /\ \A k \in (m + 1)..(e - 1) : k \notin ClosingLines)

\* The logical line that ends at physical line e: the texts of its
\* physical lines with one space between neighbours, trailing blanks off.
LogicalLine(e) ==
    TrimEnd(SpaceJoined([k \in 1..(e - FirstOf(e) + 1) |-> TextOf(FirstOf(e) + k - 1)]))

\* The logical lines that end at the given physical lines, each followed
\* by a line feed, in order.
LogicalText(ends) ==
    LET text[i \in 0..Len(Physical)] ==
            IF i = 0 THEN << >>
            ELSE text[i - 1] \o (IF i \in ends THEN LogicalLine(i) \o <<"\n">> ELSE << >>)
    IN text[Len(Physical)]

\* The tokens of the physical lines s..e as if written on one line.
TokensOf(s, e) ==
    LET toks[i \in (s - 1)..e] ==
            IF i = s - 1 THEN << >> ELSE toks[i - 1] \o SplitWhitespace(TextOf(i))
    IN toks[e]

\* C18: every physical line whose trimmed end is a backslash is joined to
\* the following line with exactly one space between the text before the
\* backslash and the following line's text: the output begins with the
\* logical lines that end at a line without a backslash, and the tokens of
\* each are the tokens of its physical lines in order.
C18_ContinuationJoined ==
    Preprocessed =>
        LET expected == LogicalText(ClosingLines)
            output == Lines(result)
        IN /\ Len(result) >= Len(expected)
           /\ SubSeq(result, 1, Len(expected)) = expected
           /\ \A e \in ClosingLines :
                 LET j == Cardinality({c \in ClosingLines : c <= e})
                 IN /\ j <= Len(output)
                    /\ SplitWhitespace(output[j]) = TokensOf(FirstOf(e), e)

\* C18 witness: a\ then b on the next line becomes the line a b.
C18_Witness ==
    /\ Preprocessed
    /\ call.input = <<"a", "\\", "\n", "b", "\n">>
    /\ result = <<"a", " ", "b", "\n">>

\* C19 as claimed: no line of the output ends with a backslash.
C19_NoTrailingBackslash ==
    Preprocessed =>
        \A j \in 1..Len(Lines(result)) : ~ends_with_backslash(Lines(result)[j])

\* The characters of a text that are neither blanks nor line feeds.
Visible(s) == SelectSeq(s, LAMBDA c : ~IsWhitespace(c) /\ c # "\n")

\* The visible characters of the physical lines, continuation backslashes
\* left out.
VisibleInput ==
    LET seen[i \in 0..Len(Physical)] ==
            IF i = 0 THEN << >> ELSE seen[i - 1] \o Visible(TextOf(i))
    IN seen[Len(Physical)]

\* C20: when the last physical line ends with a continuation backslash,
\* what is buffered is still the last line of the output, and for every
\* input the output holds all the input's text but continuation
\* backslashes and blanks.
C20_TrailingContinuationFlushed ==
    Preprocessed =>
        /\ Dangling # {} => result = LogicalText(ClosingLines \cup Dangling)
        /\ Visible(result) = VisibleInput

\* C20 witness: the input ends with b\ after a\ and the output is a b.
C20_Witness ==
    /\ Preprocessed
    /\ call.input = <<"a", "\\", "\n", "b", "\\">>
    /\ result = <<"a", " ", "b", "\n">>

\* ------------------------------------------- calls on one Interpreter
\* One of the simple-function strategies of the entry point matches the
\* call just made.
SimpleHit ==
    \/ /\ ByCli
       /\ Has(pre.simple_functions, call.name) \/ PromotionHit \/ NormalizationHit
    \/ /\ ByCall
       /\ \/ Has(pre.simple_functions, call.name)
          \/ Has(pre.simple_functions, SpaceColon(call.name))
          \/ /\ Len(SplitWhitespace(call.name)) > 1
             /\ Has(pre.simple_functions, AllJoined(SplitWhitespace(call.name)))

\* C26: a call of call_function_without_parens or call_function that
\* fails with function-not-found, or that resolves to a simple function,
\* leaves the three tables exactly as they were before the call.
C26_CallLeavesTables ==
    ((ByCli \/ ByCall) /\ (SimpleHit \/ result = NotFound(call.name))) =>
        Current = pre

\* C26 witness: a name that is not found on an interpreter whose three
\* tables all hold entries.
C26_Witness ==
    /\ ByCli
    /\ result = NotFound(call.name)
    /\ pre.variables # EmptyMap
    /\ pre.functions # EmptyMap
    /\ pre.simple_functions # EmptyMap
    /\ Current = pre

\* C27 as claimed: every call of execute, call_function_without_parens
\* and call_function returns, with Ok or with an error.
C27_CallsReturn == result.kind \in {"Ok", "Err"}

\* The name is bound in both function tables before the call.
InBoth(tables, name) == Has(tables.simple_functions, name) /\ Has(tables.functions, name)

\* Statements 1..n of the program just executed only define and assign.
OnlyDefinitions(n) ==
    \A j \in 1..n : call.program[j].type \in {"Assignment", "FunctionDef", "SimpleFunctionDef"}

\* C28: when a name is bound in both function tables, call_function,
\* call_function_without_parens and a FunctionCall statement run the
\* simple function's template and not the full function's body, also when
\* the full function was defined last; and a definition of one kind leaves
\* the entries of the other kind as they were.
C28_SimpleShadowsFull ==
    /\ ((ByCli \/ ByCall) /\ InBoth(pre, call.name)) =>
          /\ CommandsOf(executed)
                = <<substitute_args(pre.simple_functions[call.name], call.args)>>
          /\ Current = pre
    /\ ByExecute =>
          /\ \A i \in 1..Len(call.program) :
                (/\ call.program[i].type = "FunctionCall"
                 /\ OnlyDefinitions(i - 1)
                 /\ InBoth(AfterPrefix(i - 1), call.program[i].name)) =>
                    /\ executed # << >>
                    /\ executed[1].command
                          \in CommandsFrom(
                                AfterPrefix(i - 1).simple_functions[call.program[i].name],
                                call.program[i].args)
                    /\ i = Len(call.program) => Len(executed) = 1
          /\ \A n \in DOMAIN pre.functions :
                (\A i \in 1..Len(call.program) :
                    ~(call.program[i].type = "FunctionDef" /\ call.program[i].name = n)) =>
                    Has(functions, n) /\ functions[n] = pre.functions[n]
          /\ \A n \in DOMAIN pre.simple_functions :
                (\A i \in 1..Len(call.program) :
                    ~(call.program[i].type = "SimpleFunctionDef" /\ call.program[i].name = n)) =>
                    Has(simple_functions, n)
                        /\ simple_functions[n] = pre.simple_functions[n]

\* C28 witness: a program defines a full function under the name of a
\* simple function and calls the name; only the template is executed and
\* both entries are kept.
C28_Witness ==
    /\ ByExecute
    /\ Has(pre.simple_functions, nDS)
    /\ call.program = <<FunctionDef(nDS, BodySeq), FunctionCall(nDS, <<aX>>)>>
    /\ Len(executed) = 1
    /\ executed[1].command = pre.simple_functions[nDS]
    /\ InBoth(Current, nDS)

\* ------------------------------------------------ arguments as opaque text
RECURSIVE OpaqueFilled(_, _)
\* The template read once, left to right: $@ replaced by the arguments
\* joined by spaces, $k with 1 <= k <= Len(args) by args[k], everything
\* else copied; nothing put in is read again.
OpaqueFilled(s, args) ==
    IF s = << >> THEN << >>
    ELSE IF Len(s) >= 2 /\ s[1] = "$" /\ s[2] = "@"
    THEN SpaceJoined(args) \o OpaqueFilled(SubSeq(s, 3, Len(s)), args)
    ELSE IF Head(s) = "$" /\ DigitRun(Tail(s)) # << >>
    THEN LET run == DigitRun(Tail(s))
             k == NumberOf(run)
             rest == SubSeq(s, Len(run) + 2, Len(s))
         IN (IF run[1] # "0" /\ k >= 1 /\ k <= Len(args)
             THEN args[k] ELSE <<"$">> \o run) \o OpaqueFilled(rest, args)
    ELSE <<Head(s)>> \o OpaqueFilled(Tail(s), args)

\* C29 as claimed: the text substitute_args puts in for a placeholder is
\* never rewritten by a later replacement, so an argument holding $j or $@
\* is in the result as given (templates whose placeholders have one
\* digit).
C29_ArgumentsOpaque ==
    (Substituted /\ ~Contains(call.template, <<"0">>)) =>
        result = OpaqueFilled(call.template, call.args)

\* ------------------------------------------------------------- the parser
\* A pest Pair: its rule, the text it spans (as_str) and its inner pairs.
Pair(rule, str, inner) == [rule |-> rule, str |-> str, inner |-> inner]

\* Option<Statement>::None.
None == [type |-> "None"]

\* Result of parse_script: Ok(Program { statements }) or the grammar's error.
OkProgram(statements) == [kind |-> "Ok", statements |-> statements]
ParseError == [kind |-> "Err", msg |-> <<"parse error">>]

\* str::trim_matches(c).
trim_matches(s, c) ==
    LET from == CHOOSE a \in 1..(Len(s) + 1) :
                    /\ a <= Len(s) => s[a] # c
                    /\ \A i \in 1..(a - 1) : s[i] = c
        to == CHOOSE b \in 0..Len(s) :
                    /\ b >= 1 => s[b] # c
                    /\ \A i \in (b + 1)..Len(s) : s[i] = c
    IN IF from > to THEN << >> ELSE SubSeq(s, from, to)

\* str::trim().
Trim(s) ==
    LET from == CHOOSE a \in 1..(Len(s) + 1) :
                    /\ a <= Len(s) => ~IsWhitespace(s[a])
                    /\ \A i \in 1..(a - 1) : IsWhitespace(s[i])
        to == CHOOSE b \in 0..Len(s) :
                    /\ b >= 1 => ~IsWhitespace(s[b])
                    /\ \A i \in (b + 1)..Len(s) : IsWhitespace(s[i])
    IN IF from > to THEN << >> ELSE SubSeq(s, from, to)

\* What parse_command pushes for one sub-token, before the space it
\* pushes after every sub-token.
command_part(part) ==
    CASE part.rule = "quoted_string" -> <<"\"">> \o trim_matches(part.str, "\"") \o <<"\"">>
      [] part.rule = "operator" -> <<" ">> \o part.str \o <<" ">>
      [] OTHER -> part.str

parse_command(pair) ==
    LET parts == pair.inner
        text[i \in 0..Len(parts)] ==
            IF i = 0 THEN << >>
            ELSE text[i - 1] \o command_part(parts[i]) \o <<" ">>
    IN Trim(text[Len(parts)])

\* Mutant: a quoted argument keeps its quotes.
argument_value_verbatim(arg_pair) ==
    IF arg_pair.inner # << >> THEN arg_pair.inner[1].str ELSE arg_pair.str

\* The value of one argument of a parenthesized call.
argument_value(arg_pair) ==
    IF arg_pair.inner # << >>
    THEN IF arg_pair.inner[1].rule = "quoted_string"
         THEN trim_matches(arg_pair.inner[1].str, "\"")
         ELSE arg_pair.inner[1].str
    ELSE arg_pair.str

IsArgument(pair) == pair.rule = "argument"

\* The arguments of a function_call pair, in the order of its pairs.
call_arguments(inner) ==
    IF Len(inner) >= 2 /\ inner[2].rule = "argument_list"
    THEN LET arg_pairs == SelectSeq(inner[2].inner, IsArgument)
         IN [k \in 1..Len(arg_pairs) |-> argument_value(arg_pairs[k])]
    ELSE << >>

\* Mutant: a function definition is parsed into a full function whose
\* body is its command.
parse_statement_full_definitions(pair) ==
    CASE pair.rule = "assignment" ->
            IF Len(pair.inner) < 2 THEN None
            ELSE Assignment(pair.inner[1].str, ExprString(pair.inner[2].str))
      [] pair.rule = "function_def" ->
            IF Len(pair.inner) >= 2
            THEN FunctionDef(pair.inner[1].str, <<Command(parse_command(pair.inner[2]))>>)
            ELSE None
      [] pair.rule = "function_call" ->
            IF Len(pair.inner) < 1 THEN None
            ELSE FunctionCall(pair.inner[1].str, call_arguments(pair.inner))
      [] pair.rule = "command" -> Command(parse_command(pair))
      [] OTHER -> None

parse_statement(pair) ==
    CASE pair.rule = "assignment" ->
            IF Len(pair.inner) < 2 THEN None
            ELSE Assignment(pair.inner[1].str, ExprString(pair.inner[2].str))
      [] pair.rule = "function_def" ->
            IF Len(pair.inner) < 1 THEN None
            ELSE IF Len(pair.inner) >= 2
            THEN SimpleFunctionDef(pair.inner[1].str, parse_command(pair.inner[2]))
            ELSE None
      [] pair.rule = "function_call" ->
            IF Len(pair.inner) < 1 THEN None
            ELSE FunctionCall(pair.inner[1].str, call_arguments(pair.inner))
      [] pair.rule = "command" -> Command(parse_command(pair))
      [] OTHER -> None

\* Mutant: a comment is parsed like any other item.
parse_item_with_comments(statements, item) ==
    IF item.rule = "item" /\ item.inner # << >>
    THEN Append(statements, Command(item.inner[1].str))
    ELSE statements

\* The statement list after one pair inside the program pair.
parse_item(statements, item) ==
    IF item.rule = "item" /\ item.inner # << >>
    THEN LET content == item.inner[1]
         IN IF content.rule = "comment" THEN statements
            ELSE LET stmt == parse_statement(content)
                 IN IF stmt.type = "None" THEN statements ELSE Append(statements, stmt)
    ELSE statements

\* Mutant: a source the grammar rejects parses to a program of one command.
parse_script_lenient(parsed) ==
    IF ~parsed.ok THEN OkProgram(<<Command(<<"e">>)>>) ELSE OkProgram(<< >>)

\* parse_script after the grammar has run on the preprocessed text:
\* `parsed` is what ScriptParser::parse returned, an error or the pairs.
parse_script(parsed) ==
    IF ~parsed.ok THEN ParseError
    ELSE LET pairs == parsed.pairs
             inside(items) ==
                 LET acc[i \in 0..Len(items)] ==
                         IF i = 0 THEN << >> ELSE parse_item(acc[i - 1], items[i])
                 IN acc[Len(items)]
             walk[i \in 0..Len(pairs)] ==
                 IF i = 0 THEN << >>
                 ELSE IF pairs[i].rule = "program"
                      THEN walk[i - 1] \o inside(pairs[i].inner)
                      ELSE walk[i - 1]
         IN OkProgram(walk[Len(pairs)])

\* The pairs the grammar hands to the parser.  Composite pairs are given
\* no text: the parser reads the text of leaf pairs only.
pName == Pair("identifier", <<"t">>, << >>)
pWordE == Pair("word", <<"e">>, << >>)
pWordW == Pair("word", <<"w">>, << >>)
pQuoted == Pair("quoted_string", <<"\"", "a", " ", "b", "\"">>, << >>)
pQuotedEmpty == Pair("quoted_string", <<"\"", "\"">>, << >>)
pVariable == Pair("variable", <<"$", "1">>, << >>)
pOperator == Pair("operator", <<"|">>, << >>)
pArgWord == Pair("argument_word", <<"b">>, << >>)
pComment == Pair("comment", <<"#", " ", "c">>, << >>)
pEOI == Pair("EOI", << >>, << >>)

Parts == {pWordE, pWordW, pQuoted, pVariable, pOperator}

CommandPairs ==
    {Pair("command", << >>, parts) : parts \in UNION {[1..n -> Parts] : n \in 1..MaxParts}}

ArgumentOf(leaf) == Pair("argument", leaf.str, <<leaf>>)

ArgPairs == {ArgumentOf(pQuoted), ArgumentOf(pQuotedEmpty), ArgumentOf(pArgWord),
             ArgumentOf(pVariable)}

CallOf(arg_pairs) ==
    Pair("function_call", << >>, <<pName, Pair("argument_list", << >>, arg_pairs)>>)

\* name(a1, ..., an), and name() with no argument list at all.
CallPairs ==
    {CallOf(arg_pairs) : arg_pairs \in UNION {[1..n -> ArgPairs] : n \in 0..MaxCallArgs}}
        \cup {Pair("function_call", << >>, <<pName>>)}

Item(content) == Pair("item", << >>, <<content>>)

pDef == Pair("function_def", << >>, <<pName, Pair("command", << >>, <<pWordE, pQuoted>>)>>)
pAssign == Pair("assignment", << >>, <<Pair("identifier", <<"v">>, << >>),
                                        Pair("value", <<"1">>, << >>)>>)
pCall == CallOf(<<ArgumentOf(pQuoted), ArgumentOf(pArgWord)>>)
pCommand == Pair("command", << >>, <<pWordE, pOperator, pWordW>>)

\* The items of a source: a comment, an empty item, and one statement of
\* each kind.
Items ==
    {Item(pComment), Pair("item", << >>, << >>), Item(pAssign), Item(pDef), Item(pCall),
     Item(pCommand)}

\* What ScriptParser::parse returns for a source with these items.
Parsed(items) ==
    [ok |-> TRUE, pairs |-> <<Pair("program", << >>, Append(items, pEOI))>>]

Unparsable == [ok |-> FALSE, pairs |-> << >>]

ParseOutcomes ==
    {Unparsable} \cup {Parsed(items) : items \in UNION {[1..n -> Items] : n \in 0..MaxItems}}

InitParse ==
    /\ variables = EmptyMap
    /\ functions = EmptyMap
    /\ simple_functions = EmptyMap
    /\ call \in [op : {"parse_script"}, input : ParseOutcomes]
                   \cup [op : {"parse_statement"}, input : CallPairs]
                   \cup [op : {"parse_command"}, input : CommandPairs]
    /\ pre = new
    /\ result = << >>
    /\ executed = << >>
    /\ stderr = << >>

ParseScript ==
    /\ call.op = "parse_script"
    /\ result' = parse_script(call.input)
    /\ call' = [call EXCEPT !.op = "parsed_script"]
    /\ UNCHANGED <<variables, functions, simple_functions, pre, executed, stderr>>

ParseStatement ==
    /\ call.op = "parse_statement"
    /\ result' = parse_statement(call.input)
    /\ call' = [call EXCEPT !.op = "parsed_statement"]
    /\ UNCHANGED <<variables, functions, simple_functions, pre, executed, stderr>>

ParseCommand ==
    /\ call.op = "parse_command"
    /\ result' = parse_command(call.input)
    /\ call' = [call EXCEPT !.op = "parsed_command"]
    /\ UNCHANGED <<variables, functions, simple_functions, pre, executed, stderr>>

NextParse == ParseScript \/ ParseStatement \/ ParseCommand

SpecParse == InitParse /\ [][NextParse]_vars

\* The items of a parsed source, the EOI pair left out.
ItemsOf(parsed) ==
    LET inner == parsed.pairs[1].inner
    IN SubSeq(inner, 1, Len(inner) - 1)

\* The items that hold something other than a comment.
IsStatementItem(item) == item.inner # << >> /\ item.inner[1].rule # "comment"

\* The statement type of a grammar rule.
TypeOfRule(rule) ==
    CASE rule = "assignment" -> "Assignment"
      [] rule = "function_def" -> "SimpleFunctionDef"
      [] rule = "function_call" -> "FunctionCall"
      [] rule = "command" -> "Command"

\* C21: comment items contribute no statement: a source that parses and
\* holds only comments gives Ok with an empty statement list, and in a
\* mixed source the statements are those of the non-comment items, in
\* source order.
C21_CommentsSkipped ==
    (call.op = "parsed_script" /\ call.input.ok) =>
        LET kept == SelectSeq(ItemsOf(call.input), IsStatementItem)
        IN /\ result.kind = "Ok"
           /\ Len(result.statements) = Len(kept)
           /\ \A k \in 1..Len(kept) :
                 /\ result.statements[k].type = TypeOfRule(kept[k].inner[1].rule)
                 /\ kept[k].inner[1].rule # "command" =>
                       result.statements[k].name = kept[k].inner[1].inner[1].str

\* C21 witness: a comment followed by a definition parses to the
\* definition alone.
C21_Witness ==
    /\ call.op = "parsed_script"
    /\ call.input = Parsed(<<Item(pComment), Item(pDef)>>)
    /\ result.kind = "Ok"
    /\ Len(result.statements) = 1
    /\ result.statements[1].type = "SimpleFunctionDef"

\* The argument pairs of a function_call pair, in source order.
ArgumentPairsOf(pair) ==
    IF Len(pair.inner) >= 2 THEN pair.inner[2].inner ELSE << >>

\* The text of a token without its first and last character.
Unquoted(str) == SubSeq(str, 2, Len(str) - 1)

\* C22: for a parenthesized call name(a1, ..., an) the parsed FunctionCall
\* has the call's name and exactly n arguments in source order, a quoted
\* string without its surrounding quotes, a bare word or variable token
\* as written.
C22_CallArguments ==
    call.op = "parsed_statement" =>
        LET arg_pairs == ArgumentPairsOf(call.input)
        IN /\ result.type = "FunctionCall"
           /\ result.name = call.input.inner[1].str
           /\ Len(result.args) = Len(arg_pairs)
           /\ \A k \in 1..Len(arg_pairs) :
                 result.args[k]
                    = IF arg_pairs[k].inner[1].rule = "quoted_string"
                      THEN Unquoted(arg_pairs[k].inner[1].str)
                      ELSE arg_pairs[k].inner[1].str

\* C22 witness: t(b, "a b") parses to the arguments b and a b.
C22_Witness ==
    /\ call.op = "parsed_statement"
    /\ call.input = CallOf(<<ArgumentOf(pArgWord), ArgumentOf(pQuoted)>>)
    /\ result = FunctionCall(<<"t">>, << <<"b">>, <<"a", " ", "b">> >>)

\* C23 as claimed: parse_command gives the sub-tokens in order, quoted
\* strings with their quotes, with exactly one space between neighbours
\* (so one space on each side of an operator) and no blank at either end.
C23_CommandReconstruction ==
    call.op = "parsed_command" =>
        result = SpaceJoined([k \in 1..Len(call.input.inner) |-> call.input.inner[k].str])

\* ------------------------------------------------------- the command line
\* `run <file>` (execute_script) and `run <function> <args>`
\* (run_function_call), from the parse of the source to the exit of the
\* process.
RunNames == {<<"t">>, <<"n">>}
RunArgs == {<< >>, <<aX>>}

InitRun ==
    /\ variables = new.variables
    /\ functions = new.functions
    /\ simple_functions = new.simple_functions
    /\ call \in [op : {"start"}, mode : {"script", "function"}, input : ParseOutcomes,
                 name : RunNames, args : RunArgs, program : {<< >>}, code : {0},
                 called : {FALSE}]
    /\ pre = new
    /\ result = Ok
    /\ executed = << >>
    /\ stderr = << >>

\* parser::parse_script(&source).
RunParse ==
    /\ call.op = "start"
    /\ result' = parse_script(call.input)
    /\ call' = [call EXCEPT !.op = "parsed",
                            !.program = IF result'.kind = "Ok" THEN result'.statements
                                        ELSE << >>]
    /\ UNCHANGED <<variables, functions, simple_functions, pre, executed, stderr>>

\* Err(e) => { print_parse_error(..); std::process::exit(1) }.
RunParseError ==
    /\ call.op = "parsed"
    /\ result.kind = "Err"
    /\ stderr' = Append(stderr, <<"Parse error">>)
    /\ call' = [call EXCEPT !.op = "exit", !.code = 1]
    /\ UNCHANGED <<variables, functions, simple_functions, pre, result, executed>>

\* interpreter.execute(program) on a new Interpreter; an error ends the
\* process with status 1, and so does the end of a script with status 0.
RunExecute ==
    /\ call.op = "parsed"
    /\ result.kind = "Ok"
    /\ \E orc \in Oracles :
         LET st == execute(Start(Current), call.program, orc)
         IN /\ variables' = st.variables
            /\ functions' = st.functions
            /\ simple_functions' = st.simple_functions
            /\ result' = st.result
            /\ executed' = st.executed
            /\ stderr' = IF st.result.kind = "Ok" THEN st.stderr
                         ELSE Append(st.stderr, <<"Execution error">>)
            /\ pre' = Current
            /\ call' = IF st.result.kind # "Ok"
                       THEN [call EXCEPT !.op = "exit", !.code = 1]
                       ELSE IF call.mode = "script"
                       THEN [call EXCEPT !.op = "exit", !.code = 0]
                       ELSE [call EXCEPT !.op = "loaded"]

\* interpreter.call_function_without_parens(function_name, args), then
\* the exit of the process.
RunCall ==
    /\ call.op = "loaded"
    /\ \E orc \in Oracles :
         LET st == call_function_without_parens(Start(Current), call.name, call.args, orc)
         IN /\ variables' = st.variables
            /\ functions' = st.functions
            /\ simple_functions' = st.simple_functions
            /\ result' = st.result
            /\ executed' = executed \o st.executed
            /\ stderr' = IF st.result.kind = "Ok" THEN stderr \o st.stderr
                         ELSE Append(stderr \o st.stderr, <<"Error">>)
            /\ pre' = Current
            /\ call' = [call EXCEPT !.op = "exit", !.called = TRUE,
                                    !.code = IF st.result.kind = "Ok" THEN 0 ELSE 1]

NextRun == RunParse \/ RunParseError \/ RunExecute \/ RunCall

SpecRun == InitRun /\ [][NextRun]_vars

\* C24: a source that fails to parse is never executed: parse_script
\* returns an error and no Program, nothing is handed to the executor, no
\* table changes, the requested function is not called, and the process
\* exits with status 1.
C24_ParseErrorStops ==
    (call.op # "start" /\ ~call.input.ok) =>
        /\ result.kind = "Err"
        /\ call.program = << >>
        /\ executed = << >>
        /\ Current = new
        /\ ~call.called
        /\ call.op \in {"parsed", "exit"}
        /\ call.op = "exit" => call.code = 1

\* C24 witness: in function-call mode the process has exited with status
\* 1 on a source that does not parse.
C24_Witness ==
    /\ call.op = "exit"
    /\ call.mode = "function"
    /\ ~call.input.ok
    /\ call.code = 1
    /\ stderr = << <<"Parse error">> >>
    /\ executed = << >>

\* C30: no Program of parse_script holds a FunctionDef statement, so on
\* an Interpreter fed by parsed source the full-function table is empty in
\* every state, and a call that succeeds was resolved by one of the
\* simple-function strategies.
C30_NoFullFunctionFromSource ==
    /\ \A i \in 1..Len(call.program) : call.program[i].type # "FunctionDef"
    /\ functions = EmptyMap
    /\ (call.called /\ result = Ok) =>
          \/ Has(pre.simple_functions, call.name)
          \/ call.args # << >>
                /\ Has(pre.simple_functions, call.name \o <<":">> \o call.args[1])
          \/ Has(pre.simple_functions, Normalized(call.name))

\* C30 witness: a source with a function definition was loaded and its
\* function called: the definition is in the simple-function table and the
\* full-function table is empty.
C30_Witness ==
    /\ call.called
    /\ result = Ok
    /\ \E i \in 1..Len(call.program) : call.program[i].type = "SimpleFunctionDef"
    /\ Has(simple_functions, <<"t">>)
    /\ functions = EmptyMap
    /\ executed # << >>

\* ------------------------------------------------------------ load_config
\* The directories from the filesystem root (level 0) down to the current
\* directory (level cwd).  The home directory is one of them, a directory
\* off that chain, or unknown.  A Runfile or ~/.runfile is absent,
\* readable, or there but not readable (read_to_string fails).
FileStates == {"absent", "readable", "unreadable"}

ConfigSome(content) == [kind |-> "Some", content |-> content]
ConfigNone == [kind |-> "None", content |-> << >>]

RunfileAt(level) == <<"Runfile", level>>
HomeRunfile == <<".runfile">>

\* The home directory: a directory of the chain, one off it, or unknown
\* (get_home_dir() is None).
HomeAt(level) == [kind |-> "at", level |-> level]
HomeElsewhere == [kind |-> "elsewhere", level |-> 0]
HomeUnknown == [kind |-> "unknown", level |-> 0]

FileSystems ==
    UNION {[cwd : {d}, cwd_ok : BOOLEAN,
            home : {HomeAt(l) : l \in 0..d} \cup {HomeElsewhere, HomeUnknown},
            runfiles : [0..d -> FileStates], home_runfile : FileStates] :
           d \in 0..MaxDirDepth}

\* Without a home directory there is no ~/.runfile to speak of.
WellFormed(fs) == fs.home = HomeUnknown => fs.home_runfile = "absent"

\* load_home_runfile().
load_home_runfile(fs) ==
    IF fs.home # HomeUnknown /\ fs.home_runfile = "readable"
    THEN ConfigSome(HomeRunfile)
    ELSE ConfigNone

\* Mutant: only the filesystem root ends the walk.
reached_boundary_root_only(fs, dir) == dir = 0

\* The walk has reached the home directory or the filesystem root.
reached_boundary(fs, dir) == fs.home = HomeAt(dir) \/ dir = 0

InitConfig ==
    /\ variables = EmptyMap
    /\ functions = EmptyMap
    /\ simple_functions = EmptyMap
    /\ call \in {[op |-> "load_config", fs |-> fs, dir |-> fs.cwd] :
                    fs \in {f \in FileSystems : WellFormed(f)}}
    /\ pre = new
    /\ result = ConfigNone
    /\ executed = << >>
    /\ stderr = << >>

\* std::env::current_dir(): on an error only ~/.runfile is tried.
ConfigStart ==
    /\ call.op = "load_config"
    /\ call' = [call EXCEPT !.op = IF call.fs.cwd_ok THEN "loop" ELSE "fallback"]
    /\ UNCHANGED <<variables, functions, simple_functions, pre, result, executed, stderr>>

\* One turn of the loop: return the Runfile of the directory if it can be
\* read, else leave the loop at the boundary, else go to the parent.
ConfigLoop ==
    /\ call.op = "loop"
    /\ IF call.fs.runfiles[call.dir] = "readable"
       THEN /\ result' = ConfigSome(RunfileAt(call.dir))
            /\ call' = [call EXCEPT !.op = "returned"]
       ELSE /\ result' = result
            /\ call' = IF reached_boundary(call.fs, call.dir) \/ call.dir = 0
                       THEN [call EXCEPT !.op = "fallback"]
                       ELSE [call EXCEPT !.dir = call.dir - 1]
    /\ UNCHANGED <<variables, functions, simple_functions, pre, executed, stderr>>

\* After the loop: load_home_runfile().
ConfigFallback ==
    /\ call.op = "fallback"
    /\ result' = load_home_runfile(call.fs)
    /\ call' = [call EXCEPT !.op = "returned"]
    /\ UNCHANGED <<variables, functions, simple_functions, pre, executed, stderr>>

NextConfig == ConfigStart \/ ConfigLoop \/ ConfigFallback

SpecConfig == InitConfig /\ [][NextConfig]_vars

\* load_config runs on: a step that can be taken is taken.
SpecConfigLive == SpecConfig /\ WF_vars(NextConfig)

\* The directories the walk visits: from the current directory up to the
\* home directory when it is on the way, else up to the root; none when the
\* current directory cannot be told.
Walked(fs) ==
    IF ~fs.cwd_ok THEN {}
    ELSE IF fs.home.kind = "at" THEN fs.home.level..fs.cwd
    ELSE 0..fs.cwd

\* The visited directories whose Runfile can be read, and the nearest.
ReadableIn(fs) == {l \in Walked(fs) : fs.runfiles[l] = "readable"}
Nearest(fs) == CHOOSE l \in ReadableIn(fs) : \A m \in ReadableIn(fs) : m <= l

\* What load_config is to return.
Expected(fs) ==
    IF ReadableIn(fs) # {} THEN ConfigSome(RunfileAt(Nearest(fs)))
    ELSE IF fs.home.kind # "unknown" /\ fs.home_runfile = "readable"
    THEN ConfigSome(HomeRunfile)
    ELSE ConfigNone

Returned == call.op = "returned"

====
